---- MODULE Spec2Model ----
(***************************************************************************)
(* Model of dv-rs (src/src/main.rs): the pipeline of main,                 *)
(*   read_exported_dexcom_values -> clean_data -> calculate_hourly_stats   *)
(*   -> plot_hourly_stats -> save_chart_as_file.                           *)
(* Texts are sequences of one-character strings, so that parsing and       *)
(* formatting are computed character by character.  A nullable cell is a   *)
(* record: Null, or Some(v).  A float that is an average is kept as the    *)
(* exact fraction [num, den]; the percentiles are integer-valued floats.   *)
(* A Datetime is the number of seconds since 1970-01-01T00:00:00 (the      *)
(* code's millisecond value is 1000 times that: the format has no          *)
(* sub-second field).                                                      *)
(***************************************************************************)
EXTENDS Integers, Sequences, FiniteSets

VARIABLES header, raw_values, glucose_levels, hourly_stats, hourly_chart,
          file, pc, result

vars == <<header, raw_values, glucose_levels, hourly_stats, hourly_chart,
          file, pc, result>>

----------------------------------------------------------------------------
(* Bounds of the model *)

MaxRows == 2
MaxStatRows == 4
MaxM == 260

----------------------------------------------------------------------------
(* Nullable cells *)

Null == [null |-> TRUE]
Some(v) == [null |-> FALSE, v |-> v]

----------------------------------------------------------------------------
(* Texts *)

Digits == <<"0", "1", "2", "3", "4", "5", "6", "7", "8", "9">>

IsDigit(c) == \E i \in 1..10 : Digits[i] = c

DigitVal(c) == (CHOOSE i \in 1..10 : Digits[i] = c) - 1

RECURSIVE UDigits(_)
UDigits(n) ==
  IF n < 10 THEN <<Digits[n + 1]>>
  ELSE UDigits(n \div 10) \o <<Digits[(n % 10) + 1]>>

\* Rust's to_string of an integer: a minus sign and the decimal digits
ToString(n) == IF n < 0 THEN <<"-">> \o UDigits(-n) ELSE UDigits(n)

Pad2(n) == <<Digits[(n \div 10) + 1], Digits[(n % 10) + 1]>>

Pad4(n) == Pad2(n \div 100) \o Pad2(n % 100)

\* a timestamp cell of the export, written as YYYY-MM-DDThh:mm:ss
TsText(y, mo, d, h, mi, s) ==
  Pad4(y) \o <<"-">> \o Pad2(mo) \o <<"-">> \o Pad2(d) \o <<"T">>
    \o Pad2(h) \o <<":">> \o Pad2(mi) \o <<":">> \o Pad2(s)

timestamp_col == "Timestamp (YYYY-MM-DDThh:mm:ss)"
glucose_col == "Glucose Value (mg/dL)"

LowLit == <<"L", "o", "w">>
LowValue == 30

I32MaxDiv10 == 214748364

\* one more digit d onto the magnitude acc, or -1 when the result leaves
\* the range of i32
PushDigit(acc, d) ==
  IF acc < I32MaxDiv10 THEN acc * 10 + d
  ELSE IF acc = I32MaxDiv10 /\ d <= 7 THEN acc * 10 + d
  ELSE -1

RECURSIVE ParseDigits(_, _)
ParseDigits(t, acc) ==
  IF acc < 0 THEN -1
  ELSE IF t = <<>> THEN acc
  ELSE IF ~IsDigit(Head(t)) THEN -1
  ELSE ParseDigits(Tail(t), PushDigit(acc, DigitVal(Head(t))))

\* col(glucose_col).cast(DataType::Int32): a non-strict cast of a string
\* cell, null when the text is no decimal integer of the i32 range.  (The
\* text -2147483648 is the one i32 this reads as null; it is negative, and
\* the next step of clean_data makes it null in any case.)
CastInt32(t) ==
  IF t = <<>> THEN Null
  ELSE IF Head(t) = "-"
    THEN IF Tail(t) = <<>> \/ ParseDigits(Tail(t), 0) < 0 THEN Null
         ELSE Some(-ParseDigits(Tail(t), 0))
  ELSE IF ParseDigits(t, 0) < 0 THEN Null
  ELSE Some(ParseDigits(t, 0))

----------------------------------------------------------------------------
(* Timestamps *)

IsLeap(y) == (y % 4 = 0 /\ y % 100 # 0) \/ y % 400 = 0

DaysInMonth(y, mo) ==
  IF mo = 2 THEN (IF IsLeap(y) THEN 29 ELSE 28)
  ELSE IF mo \in {4, 6, 9, 11} THEN 30
  ELSE 31

\* days from 1970-01-01 to the civil date y-mo-d (proleptic Gregorian)
DaysFromCivil(y, mo, d) ==
  LET yy == IF mo <= 2 THEN y - 1 ELSE y
      era == yy \div 400
      yoe == yy - era * 400
      mp == IF mo > 2 THEN mo - 3 ELSE mo + 9
      doy == (153 * mp + 2) \div 5 + d - 1
      doe == yoe * 365 + yoe \div 4 - yoe \div 100 + doy
  IN era * 146097 + doe - 719468

AllDigits(t) == \A i \in 1..Len(t) : IsDigit(t[i])

Num(t) == ParseDigits(t, 0)

\* the text against the format "%Y-%m-%dT%H:%M:%S": the Datetime, or Null
\* when the text does not match or names no calendar date and time
ParseTimestamp(t) ==
  IF Len(t) # 19 THEN Null
  ELSE IF ~(t[5] = "-" /\ t[8] = "-" /\ t[11] = "T" /\ t[14] = ":" /\ t[17] = ":")
    THEN Null
  ELSE
    LET fy == SubSeq(t, 1, 4)
        fmo == SubSeq(t, 6, 7)
        fd == SubSeq(t, 9, 10)
        fh == SubSeq(t, 12, 13)
        fmi == SubSeq(t, 15, 16)
        fs == SubSeq(t, 18, 19)
    IN IF ~AllDigits(fy \o fmo \o fd \o fh \o fmi \o fs) THEN Null
       ELSE IF ~(Num(fmo) \in 1..12 /\ Num(fh) \in 0..23 /\ Num(fmi) \in 0..59
                 /\ Num(fs) \in 0..59) THEN Null
       ELSE IF ~(Num(fd) \in 1..DaysInMonth(Num(fy), Num(fmo))) THEN Null
       ELSE Some(DaysFromCivil(Num(fy), Num(fmo), Num(fd)) * 86400
                 + Num(fh) * 3600 + Num(fmi) * 60 + Num(fs))

\* a strict parse in the place of the non-strict one
strict_True == TRUE

\* StrptimeOptions.strict
strict == FALSE

\* col(timestamp_col).str().strptime(..): the cell, and whether the
\* expression raises (a strict parse raises on a text it cannot parse)
strptime(t) ==
  [raised |-> strict /\ t # <<>> /\ ParseTimestamp(t).null,
   cell |-> ParseTimestamp(t)]

----------------------------------------------------------------------------
(* clean_data *)

\* the comparison with "Low" made without regard to case
LowTo30_AnyCase(t) ==
  IF t \in {LowLit, <<"l", "o", "w">>, <<"L", "O", "W">>} THEN Some(LowValue)
  ELSE CastInt32(t)

\* when(col == "Low").then(30).otherwise(col.cast(Int32))
LowTo30(t) == IF t = LowLit THEN Some(LowValue) ELSE CastInt32(t)

\* the comparison <= 0 in the place of < 0
NegativeToNull_ZeroToo(g) == IF ~g.null /\ g.v <= 0 THEN Null ELSE g

\* when(col < 0).then(NULL).otherwise(col): a null comparison is not true
NegativeToNull(g) == IF ~g.null /\ g.v < 0 THEN Null ELSE g

\* the with_column steps on one row
CleanRow(r) ==
  [ts |-> strptime(r.ts).cell, glucose |-> NegativeToNull(LowTo30(r.glucose))]

RECURSIVE drop_nulls(_)
drop_nulls(df) ==
  IF df = <<>> THEN <<>>
  ELSE IF Head(df).ts.null \/ Head(df).glucose.null THEN drop_nulls(Tail(df))
  ELSE <<Head(df)>> \o drop_nulls(Tail(df))

\* clean_data(df): Err when a column is missing or an expression raises,
\* else the cleaned frame
clean_data(cols, df) ==
  IF ~({timestamp_col, glucose_col} \subseteq cols)
    THEN [ok |-> FALSE, err |-> "ColumnNotFound", df |-> <<>>]
  ELSE IF \E i \in 1..Len(df) : strptime(df[i].ts).raised
    THEN [ok |-> FALSE, err |-> "ComputeError", df |-> <<>>]
  ELSE [ok |-> TRUE, err |-> "",
        df |-> drop_nulls([i \in 1..Len(df) |-> CleanRow(df[i])])]

----------------------------------------------------------------------------
(* calculate_hourly_stats *)

\* col(timestamp_col).dt().hour(): the hour of the day of a Datetime
Hour(t) == (t % 86400) \div 3600

\* the hour of the calendar day in the place of the hour of the day
GroupKey_DateAndHour(r) == r.ts.v \div 3600

\* the key of group_by([col("Hour")])
GroupKey(r) == Hour(r.ts.v)

RECURSIVE GroupValues(_, _)
\* the glucose values of the rows of df whose key is k, in row order
GroupValues(df, k) ==
  IF df = <<>> THEN <<>>
  ELSE IF GroupKey(Head(df)) = k
    THEN <<Head(df).glucose.v>> \o GroupValues(Tail(df), k)
  ELSE GroupValues(Tail(df), k)

RECURSIVE Sum(_)
Sum(vals) == IF vals = <<>> THEN 0 ELSE Head(vals) + Sum(Tail(vals))

\* col(glucose_col).mean(): the sum over the count, as an exact fraction
Mean(vals) == [num |-> Sum(vals), den |-> Len(vals)]

RECURSIVE Insert(_, _)
Insert(x, sorted) ==
  IF sorted = <<>> THEN <<x>>
  ELSE IF x <= Head(sorted) THEN <<x>> \o sorted
  ELSE <<Head(sorted)>> \o Insert(x, Tail(sorted))

RECURSIVE SortAsc(_)
SortAsc(vals) ==
  IF vals = <<>> THEN <<>> ELSE Insert(Head(vals), SortAsc(Tail(vals)))

\* QuantileInterpolOptions::Lower in the place of Nearest
NearestIdx_Lower(n, pct) == (pct * (n - 1)) \div 100

\* QuantileInterpolOptions::Nearest: the index (from 0) into the n sorted
\* values for the quantile pct/100, (n - 1) * pct / 100 rounded to the
\* nearest integer, a half rounded up
NearestIdx(n, pct) == (2 * pct * (n - 1) + 100) \div 200

\* the pick taken from the values as they come, not sorted
Quantile_Unsorted(vals, pct) == vals[NearestIdx(Len(vals), pct) + 1]

\* col(glucose_col).quantile(lit(pct / 100), Nearest)
Quantile(vals, pct) == SortAsc(vals)[NearestIdx(Len(vals), pct) + 1]

\* the row that agg([..]) makes of one group
AggRow(k, vals) ==
  [Hour |-> k, Mean |-> Mean(vals),
   P5 |-> Quantile(vals, 5), P25 |-> Quantile(vals, 25),
   P75 |-> Quantile(vals, 75), P95 |-> Quantile(vals, 95)]

RECURSIVE InsertRow(_, _)
InsertRow(r, sorted) ==
  IF sorted = <<>> THEN <<r>>
  ELSE IF r.Hour <= Head(sorted).Hour THEN <<r>> \o sorted
  ELSE <<Head(sorted)>> \o InsertRow(r, Tail(sorted))

RECURSIVE SortByHour(_)
\* sort(["Hour"], descending: false)
SortByHour(rows) ==
  IF rows = <<>> THEN <<>> ELSE InsertRow(Head(rows), SortByHour(Tail(rows)))

\* the keys of the groups of df
GroupKeys(df) == {GroupKey(df[i]) : i \in 1..Len(df)}

\* the orders in which group_by may hand out the groups: any order
GroupOrders(df) ==
  {o \in [1..Cardinality(GroupKeys(df)) -> GroupKeys(df)] :
     \A i, j \in DOMAIN o : i # j => o[i] # o[j]}

\* the rows left in the order of the groups, the sort left out
calculate_hourly_stats_Unsorted(df, o) ==
  [i \in DOMAIN o |-> [Hour |-> o[i], Mean |-> Mean(GroupValues(df, o[i])),
     P5 |-> Quantile(GroupValues(df, o[i]), 5), P25 |-> Quantile(GroupValues(df, o[i]), 25),
     P75 |-> Quantile(GroupValues(df, o[i]), 75), P95 |-> Quantile(GroupValues(df, o[i]), 95)]]

\* calculate_hourly_stats(df), the groups handed out in the order o
calculate_hourly_stats(df, o) ==
  SortByHour([i \in DOMAIN o |-> AggRow(o[i], GroupValues(df, o[i]))])

----------------------------------------------------------------------------
(* plot_hourly_stats *)

Interval == 25
Headroom == 50

\* Rust's % : the remainder has the sign of the dividend
Rem(a, b) == IF a >= 0 THEN a % b ELSE -((-a) % b)

\* the next gridline above the maximum, without the headroom
AxisMax_NextGridline(max_value) ==
  (max_value + Interval) - Rem(max_value, Interval)

\* Axis .max(..): (max_value + 50.0) - (max_value % 25.0)
AxisMax(max_value) == (max_value + Headroom) - Rem(max_value, Interval)

RECURSIVE Reduce_max(_, _)
Reduce_max(acc, vals) ==
  IF vals = <<>> THEN acc
  ELSE Reduce_max(IF Head(vals) > acc THEN Head(vals) ELSE acc, Tail(vals))

Column(df, name) == [i \in 1..Len(df) |-> df[i][name]]

\* every width taken from the floor of the first hour
Area_FirstFloor(lo, hi) ==
  [i \in 1..(IF Len(lo) < Len(hi) THEN Len(lo) ELSE Len(hi)) |-> hi[i] - lo[1]]

\* percentile_lo.iter().zip(percentile_hi.iter()).map(|(l, h)| h - l)
Area(lo, hi) ==
  [i \in 1..(IF Len(lo) < Len(hi) THEN Len(lo) ELSE Len(hi)) |-> hi[i] - lo[i]]

LineSeries(name, data, stack) == [name |-> name, data |-> data, stack |-> stack]

\* plot_hourly_stats(hourly_stats): panics when reduce yields None
plot_hourly_stats(stats) ==
  LET hours == [i \in 1..Len(stats) |-> ToString(stats[i].Hour)]
      mean_values == Column(stats, "Mean")
      percentile_5 == Column(stats, "P5")
      percentile_25 == Column(stats, "P25")
      percentile_75 == Column(stats, "P75")
      percentile_95 == Column(stats, "P95")
      area_25_75 == Area(percentile_25, percentile_75)
      area_5_95 == Area(percentile_5, percentile_95)
  IN IF percentile_95 = <<>> THEN [panicked |-> TRUE]
     ELSE
       [panicked |-> FALSE,
        title |-> "Hourly Mean Glucose Levels",
        x_axis |-> [name |-> "Hour of the Day", data |-> hours],
        y_axis |-> [name |-> "Glucose Value (mg/dL)", interval |-> Interval,
                    min |-> 0,
                    max |-> AxisMax(Reduce_max(Head(percentile_95),
                                               Tail(percentile_95)))],
        series |-> <<
          LineSeries("", percentile_5, "confidence-5-95-band"),
          LineSeries("", area_5_95, "confidence-5-95-band"),
          LineSeries("5th Percentile", percentile_5, ""),
          LineSeries("95th Percentile", percentile_95, ""),
          LineSeries("", percentile_25, "confidence-25-75-band"),
          LineSeries("", area_25_75, "confidence-25-75-band"),
          LineSeries("25th Percentile", percentile_25, ""),
          LineSeries("75th Percentile", percentile_75, ""),
          LineSeries("Mean Glucose", mean_values, "")>>]

----------------------------------------------------------------------------
(* main *)

NoChart == [panicked |-> FALSE, title |-> ""]
NoFile == [name |-> ""]

Running == [kind |-> "running", message |-> ""]
Ok == [kind |-> "Ok", message |-> ""]
Err(m) == [kind |-> "Err", message |-> m]
Panic(m) == [kind |-> "panic", message |-> m]

\* let glucose_levels = clean_data(raw_values)?;
MainCleanData ==
  /\ pc = "clean_data"
  /\ LET r == clean_data(header, raw_values)
     IN IF r.ok
          THEN /\ glucose_levels' = r.df
               /\ pc' = "calculate_hourly_stats"
               /\ result' = result
          ELSE /\ glucose_levels' = glucose_levels
               /\ pc' = "exit"
               /\ result' = Err(r.err)
  /\ UNCHANGED <<header, raw_values, hourly_stats, hourly_chart, file>>

\* let hourly_stats = calculate_hourly_stats(glucose_levels)?;
MainCalculateHourlyStats ==
  /\ pc = "calculate_hourly_stats"
  /\ \E o \in GroupOrders(glucose_levels) :
       hourly_stats' = calculate_hourly_stats(glucose_levels, o)
  /\ pc' = "plot_hourly_stats"
  /\ UNCHANGED <<header, raw_values, glucose_levels, hourly_chart, file, result>>

\* let hourly_chart = plot_hourly_stats(hourly_stats)?;
MainPlotHourlyStats ==
  /\ pc = "plot_hourly_stats"
  /\ LET c == plot_hourly_stats(hourly_stats)
     IN IF c.panicked
          THEN /\ hourly_chart' = hourly_chart
               /\ pc' = "exit"
               /\ result' = Panic("called Option::unwrap() on a None value")
          ELSE /\ hourly_chart' = c
               /\ pc' = "save_chart_as_file"
               /\ result' = result
  /\ UNCHANGED <<header, raw_values, glucose_levels, hourly_stats, file>>

\* save_chart_as_file(hourly_chart)?; Ok(()) -- the renderer may fail
MainSaveChartAsFile ==
  /\ pc = "save_chart_as_file"
  /\ \E rendered \in BOOLEAN :
       IF rendered
         THEN /\ file' = [name |-> "glucose_levels.png", chart |-> hourly_chart]
              /\ result' = Ok
         ELSE /\ file' = file
              /\ result' = Err("Error rendering the chart")
  /\ pc' = "exit"
  /\ UNCHANGED <<header, raw_values, glucose_levels, hourly_stats, hourly_chart>>

Next ==
  \/ MainCleanData
  \/ MainCalculateHourlyStats
  \/ MainPlotHourlyStats
  \/ MainSaveChartAsFile

----------------------------------------------------------------------------
(* The exports read by read_exported_dexcom_values *)

BothColumns == {"Index", timestamp_col, "Event Type", glucose_col}
NoGlucoseColumn == {"Index", timestamp_col, "Event Type"}

Hour8Day1 == TsText(2024, 1, 1, 8, 0, 0)
Hour8Day2 == TsText(2024, 1, 2, 8, 30, 0)
Hour23Day1 == TsText(2024, 1, 1, 23, 59, 59)
\* a blank in the place of the T
BlankSeparator == [TsText(2024, 1, 1, 8, 0, 0) EXCEPT ![11] = " "]
TimestampTexts == {Hour8Day1, Hour8Day2, Hour23Day1, <<>>, BlankSeparator}

GlucoseTexts ==
  {LowLit, <<"l", "o", "w">>, <<"L", "O", "W">>, <<"H", "i", "g", "h">>, <<>>,
   ToString(90), ToString(0), ToString(-5)}

SeqsUpTo(S, n) == UNION {[1..k -> S] : k \in 0..n}

InitRest ==
  /\ glucose_levels = <<>>
  /\ hourly_stats = <<>>
  /\ hourly_chart = NoChart
  /\ file = NoFile
  /\ pc = "clean_data"
  /\ result = Running

\* an export of at most MaxRows rows, well-formed or not, with the glucose
\* column or without it
Init ==
  /\ header \in {BothColumns, NoGlucoseColumn}
  /\ raw_values \in
       IF glucose_col \in header
         THEN SeqsUpTo([ts : TimestampTexts, glucose : GlucoseTexts], MaxRows)
         ELSE SeqsUpTo([ts : TimestampTexts], MaxRows)
  /\ InitRest

Spec == Init /\ [][Next]_vars

StatGlucose == {10, 20, 30, 40}

\* an export of at most MaxStatRows well-formed readings at two hours
InitStats ==
  /\ header = BothColumns
  /\ raw_values \in
       SeqsUpTo([ts : {Hour8Day1, Hour23Day1},
                 glucose : {ToString(g) : g \in StatGlucose}], MaxStatRows)
  /\ InitRest

SpecStats == InitStats /\ [][Next]_vars

\* an export of two readings at two hours: any value up to MaxM at hour 8,
\* and 110 or a sensor error at hour 23
InitAxis ==
  /\ header = BothColumns
  /\ \E m \in -1..MaxM, k \in {-1, 110} :
       raw_values = <<[ts |-> Hour8Day1, glucose |-> ToString(m)],
                      [ts |-> Hour23Day1, glucose |-> ToString(k)]>>
  /\ InitRest

SpecAxis == InitAxis /\ [][Next]_vars

----------------------------------------------------------------------------
(* Reference values of the exports above, written out by hand *)

WellFormedTs == {Hour8Day1, Hour8Day2, Hour23Day1}

\* seconds since 1970-01-01T00:00:00 of the well-formed timestamp texts
RefEpoch(t) ==
  CASE t = Hour8Day1 -> 1704096000
    [] t = Hour8Day2 -> 1704184200
    [] t = Hour23Day1 -> 1704153599

\* the hour of the day of each of these instants
RefHour(e) ==
  CASE e = 1704096000 -> 8
    [] e = 1704184200 -> 8
    [] e = 1704153599 -> 23

OtherNonNumeric == {<<"l", "o", "w">>, <<"L", "O", "W">>, <<"H", "i", "g", "h">>, <<>>}

NegativeTexts == {<<"-", "5">>}

RefGlucose(g) ==
  CASE g = LowLit -> 30
    [] g = <<"9", "0">> -> 90
    [] g = <<"0">> -> 0

GoodRow(r) ==
  /\ r.ts \in WellFormedTs
  /\ r.glucose \notin OtherNonNumeric \cup NegativeTexts

RECURSIVE RefClean(_)
RefClean(df) ==
  IF df = <<>> THEN <<>>
  ELSE IF GoodRow(Head(df))
    THEN <<[ts |-> Some(RefEpoch(Head(df).ts)),
            glucose |-> Some(RefGlucose(Head(df).glucose))]>> \o RefClean(Tail(df))
  ELSE RefClean(Tail(df))

Count(df, P(_)) == Cardinality({i \in 1..Len(df) : P(df[i])})

\* clean_data has returned a frame
Cleaned == glucose_col \in header /\ pc # "clean_data"

\* calculate_hourly_stats has returned
Aggregated == Cleaned /\ pc # "calculate_hourly_stats"

\* plot_hourly_stats has returned a chart
Plotted == hourly_chart # NoChart

\* the glucose values of the cleaned readings at hour h, by the reference
RefGroup(h) ==
  LET idx == {i \in 1..Len(glucose_levels) : RefHour(glucose_levels[i].ts.v) = h}
  IN [i \in idx |-> glucose_levels[i].glucose.v]

RECURSIVE SumOf(_)
SumOf(f) ==
  IF DOMAIN f = {} THEN 0
  ELSE LET i == CHOOSE i \in DOMAIN f : TRUE
       IN f[i] + SumOf([j \in DOMAIN f \ {i} |-> f[j]])

RefHours == {RefHour(glucose_levels[i].ts.v) : i \in 1..Len(glucose_levels)}

----------------------------------------------------------------------------
(* Claims *)

\* C1: a row whose glucose text is exactly "Low" gets the value 30 (as many
\* cleaned rows hold 30 as well-timed "Low" rows were read); "low", "LOW"
\* and every other non-numeric text become null and never a cleaned row.
C1_LowIs30 ==
  Cleaned =>
    /\ Count(glucose_levels, LAMBDA r : r.glucose = Some(30))
         = Count(raw_values, LAMBDA r : r.glucose = LowLit /\ r.ts \in WellFormedTs)
    /\ Len(glucose_levels)
         <= Count(raw_values, LAMBDA r : r.glucose \notin OtherNonNumeric)

C1_Witness ==
  /\ Cleaned
  /\ raw_values = <<[ts |-> Hour8Day1, glucose |-> <<"l", "o", "w">>],
                    [ts |-> Hour8Day1, glucose |-> LowLit]>>
  /\ glucose_levels = <<[ts |-> Some(1704096000), glucose |-> Some(30)]>>

\* C2: with both columns present clean_data does not fail on a malformed
\* row; a row with an unparseable or negative glucose text or a timestamp
\* that does not match is absent from the output, and every output row has a
\* non-null timestamp and a non-null glucose value >= 0.
C2_MalformedRowsDropped ==
  (glucose_col \in header /\ pc # "clean_data") =>
    /\ result.kind = "Err" => result.message = "Error rendering the chart"
    /\ \A j \in 1..Len(glucose_levels) :
         /\ ~glucose_levels[j].ts.null
         /\ ~glucose_levels[j].glucose.null
         /\ glucose_levels[j].glucose.v >= 0
    /\ Len(glucose_levels) <= Count(raw_values, GoodRow)
    /\ (Count(raw_values, GoodRow) > 0 => glucose_levels # <<>>)

C2_Witness ==
  /\ Cleaned
  /\ raw_values = <<[ts |-> BlankSeparator, glucose |-> <<"9", "0">>],
                    [ts |-> Hour8Day1, glucose |-> <<"9", "0">>]>>
  /\ Len(glucose_levels) = 1

\* C3: the output of clean_data is exactly the subsequence of the input rows
\* whose timestamp parses and whose glucose is "Low" or an integer >= 0, in
\* their original order; a reading of 0 is kept.
C3_ExactSubsequence == Cleaned => glucose_levels = RefClean(raw_values)

C3_Witness ==
  /\ Cleaned
  /\ raw_values = <<[ts |-> Hour23Day1, glucose |-> <<"0">>],
                    [ts |-> Hour8Day1, glucose |-> <<"9", "0">>]>>
  /\ glucose_levels = <<[ts |-> Some(1704153599), glucose |-> Some(0)],
                        [ts |-> Some(1704096000), glucose |-> Some(90)]>>

\* C4: the readings of one hour of the day, whatever their date, make one
\* row, whose mean is the sum over the count of exactly those readings;
\* "Low" and 90 at hour 8 give one row for hour 8 with mean 60.
C4_GroupsByHourOnly ==
  Aggregated =>
    /\ \A i \in 1..Len(hourly_stats) : hourly_stats[i].Hour \in 0..23
    /\ \A h \in RefHours :
         /\ Cardinality({i \in 1..Len(hourly_stats) : hourly_stats[i].Hour = h}) = 1
         /\ \A i \in 1..Len(hourly_stats) :
              hourly_stats[i].Hour = h =>
                /\ hourly_stats[i].Mean.num = SumOf(RefGroup(h))
                /\ hourly_stats[i].Mean.den = Cardinality(DOMAIN RefGroup(h))
    /\ (raw_values = <<[ts |-> Hour8Day1, glucose |-> LowLit],
                       [ts |-> Hour8Day2, glucose |-> <<"9", "0">>]>>
          => /\ Len(hourly_stats) = 1
             /\ hourly_stats[1].Hour = 8
             /\ hourly_stats[1].Mean.num = 60 * hourly_stats[1].Mean.den)

C4_Witness ==
  /\ Aggregated
  /\ raw_values = <<[ts |-> Hour8Day1, glucose |-> LowLit],
                    [ts |-> Hour8Day2, glucose |-> <<"9", "0">>]>>
  /\ Len(hourly_stats) = 1
  /\ hourly_stats[1].Mean.den = 2

\* C5: the rows of calculate_hourly_stats are strictly ascending by hour, and
\* their hours are exactly the hours that occur in the cleaned readings,
\* whatever the order of the readings.
C5_AscendingHours ==
  Aggregated =>
    /\ \A i, j \in 1..Len(hourly_stats) :
         i < j => hourly_stats[i].Hour < hourly_stats[j].Hour
    /\ {hourly_stats[i].Hour : i \in 1..Len(hourly_stats)} = RefHours

C5_Witness ==
  /\ Aggregated
  /\ Len(glucose_levels) = 2
  /\ glucose_levels[1].ts = Some(1704153599)
  /\ glucose_levels[2].ts = Some(1704096000)
  /\ Len(hourly_stats) = 2
  /\ hourly_stats[1].Hour = 8

Abs(x) == IF x < 0 THEN -x ELSE x

Range(f) == {f[i] : i \in DOMAIN f}

\* x is the value at index idx (from 0) of the ascending order of the group g
AtSortedIndex(g, idx, x) ==
  /\ x \in Range(g)
  /\ Cardinality({i \in DOMAIN g : g[i] < x}) <= idx
  /\ idx < Cardinality({i \in DOMAIN g : g[i] <= x})

\* x is a nearest-rank pick of the quantile pct/100 of the group g: the value
\* at an index no further than one half from (n - 1) * pct / 100
NearestRankPick(g, pct, x) ==
  LET n == Cardinality(DOMAIN g)
  IN \E idx \in 0..(n - 1) :
       /\ Abs(100 * idx - pct * (n - 1)) <= 50
       /\ AtSortedIndex(g, idx, x)

TenToForty(g) ==
  /\ Cardinality(DOMAIN g) = 4
  /\ Range(g) = {10, 20, 30, 40}

\* C6: each of p5, p25, p75, p95 of an hour is the element of the hour's
\* sorted readings at the index nearest to q * (n - 1), hence a member of the
\* group; the 25th percentile of the group 10, 20, 30, 40 is 20.
C6_NearestRank ==
  Aggregated =>
    \A i \in 1..Len(hourly_stats) :
      LET row == hourly_stats[i]
          g == RefGroup(row.Hour)
      IN /\ NearestRankPick(g, 5, row.P5)
         /\ NearestRankPick(g, 25, row.P25)
         /\ NearestRankPick(g, 75, row.P75)
         /\ NearestRankPick(g, 95, row.P95)
         /\ (TenToForty(g) => row.P25 = 20)

C6_Witness ==
  /\ Aggregated
  /\ Len(hourly_stats) = 1
  /\ TenToForty(RefGroup(8))
  /\ glucose_levels[1].glucose.v = 40
  /\ hourly_stats[1].P25 = 20

\* the maximum of the 95th percentiles of the hours
MaxP95 ==
  CHOOSE m \in {hourly_stats[i].P95 : i \in 1..Len(hourly_stats)} :
    \A i \in 1..Len(hourly_stats) : hourly_stats[i].P95 <= m

\* C7: the y-axis ceiling is M + 50 - (M mod 25) for the maximum M of the
\* 95th percentiles: 225 for 180, 250 for 200; a multiple of 25 strictly
\* between M + 25 and M + 50 when M is no multiple of 25, and M + 50 when
\* it is one.
C7_AxisCeiling ==
  Plotted =>
    LET M == MaxP95
        c == hourly_chart.y_axis.max
    IN /\ M >= 0
       /\ c = M + 50 - (M % 25)
       /\ (M % 25 # 0 => c % 25 = 0 /\ M + 25 < c /\ c < M + 50)
       /\ (M % 25 = 0 => c = M + 50)
       /\ (M = 180 => c = 225)
       /\ (M = 200 => c = 250)

C7_Witness ==
  /\ Plotted
  /\ Len(hourly_stats) = 2
  /\ MaxP95 = 180
  /\ hourly_chart.y_axis.max = 225

\* C8: when no reading survives cleaning the run ends in an error returned
\* as a value to the top level, with a message, and no chart file is written.
C8_EmptyEndsInError ==
  (Cleaned /\ glucose_levels = <<>> /\ pc = "exit") =>
    /\ result.kind = "Err"
    /\ result.message # ""
    /\ file = NoFile

\* C9: the band series are index-matched to the hour rows: the 5-95 width is
\* p95[i] - p5[i] and the 25-75 width is p75[i] - p25[i], so floor plus width
\* is the upper percentile of the same hour; the labels are the decimal
\* strings of the hours in ascending order; every series has one entry per
\* row.
C9_BandsIndexMatched ==
  Plotted =>
    LET n == Len(hourly_stats)
        s == hourly_chart.series
        labels == hourly_chart.x_axis.data
    IN /\ Len(labels) = n
       /\ Len(s) = 9
       /\ \A k \in 1..9 : Len(s[k].data) = n
       /\ \A i \in 1..n :
            LET row == hourly_stats[i]
            IN /\ s[1].data[i] = row.P5
               /\ s[2].data[i] = row.P95 - row.P5
               /\ s[1].data[i] + s[2].data[i] = row.P95
               /\ s[3].data[i] = row.P5
               /\ s[4].data[i] = row.P95
               /\ s[5].data[i] = row.P25
               /\ s[6].data[i] = row.P75 - row.P25
               /\ s[5].data[i] + s[6].data[i] = row.P75
               /\ s[7].data[i] = row.P25
               /\ s[8].data[i] = row.P75
               /\ s[9].data[i] = row.Mean
               /\ CastInt32(labels[i]) = Some(row.Hour)
               /\ Len(labels[i]) = (IF row.Hour < 10 THEN 1 ELSE 2)
       /\ \A i, j \in 1..n : i < j => CastInt32(labels[i]).v < CastInt32(labels[j]).v

C9_Witness ==
  /\ Plotted
  /\ Len(hourly_stats) = 2
  /\ hourly_chart.x_axis.data = << <<"8">>, <<"2", "3">> >>
  /\ hourly_chart.series[2].data = <<30, 10>>
  /\ hourly_chart.series[1].data = <<10, 20>>

\* C10: every row satisfies min <= p5 <= p25 <= p75 <= p95 <= max of its
\* group and min <= mean <= max, for every group size; hence both band widths
\* are never negative and the axis maximum M is never negative.
C10_PercentilesOrdered ==
  /\ Aggregated =>
       \A i \in 1..Len(hourly_stats) :
         LET row == hourly_stats[i]
             vals == Range(RefGroup(row.Hour))
         IN /\ \E lo \in vals : (\A v \in vals : lo <= v) /\ lo <= row.P5
                  /\ lo * row.Mean.den <= row.Mean.num
            /\ row.P5 <= row.P25
            /\ row.P25 <= row.P75
            /\ row.P75 <= row.P95
            /\ \E hi \in vals : (\A v \in vals : v <= hi) /\ row.P95 <= hi
                  /\ row.Mean.num <= hi * row.Mean.den
  /\ Plotted =>
       /\ \A i \in 1..Len(hourly_stats) :
            /\ hourly_chart.series[2].data[i] >= 0
            /\ hourly_chart.series[6].data[i] >= 0
       /\ MaxP95 >= 0

C10_Witness ==
  /\ Plotted
  /\ Len(hourly_stats) = 2
  /\ Cardinality(DOMAIN RefGroup(8)) = 1
  /\ Cardinality(DOMAIN RefGroup(23)) = 3
  /\ glucose_levels[1].glucose.v = 40
  /\ hourly_stats[2].P5 < hourly_stats[2].P95

====
